---- MODULE Spec2Model ----
(***************************************************************************)
(* Model of the SAPI scheduler core (rafellerc/sapi_scheduler).            *)
(*                                                                         *)
(* Part 1: src/src/instance.py -- the Instance class, its property         *)
(* setters, its seven constraint families, the SolutionBuilder callback    *)
(* and the enumerate-all search.                                           *)
(* Part 2: src/sapi.py -- make_group.                                      *)
(* Part 3: src/src/data_input.py -- get_problem_info.                      *)
(*                                                                         *)
(* Indices are 0-based as in the source: units i, days j, tasks k.         *)
(* A tensor (one entry of solution_list) is a function from the triples    *)
(* <<i, j, k>> to {0, 1}.  The CP model is the set of linear constraints   *)
(* added to self.model so far; each constraint is a record                 *)
(*   [coef |-> coefficient of every variable, op |-> "eq"|"ge"|"le",       *)
(*    rhs |-> right-hand side].                                            *)
(***************************************************************************)
EXTENDS Integers, Sequences, FiniteSets, TLC

(***************************************************************************)
(* Bounds of the model.                                                    *)
(***************************************************************************)
\* Size budget of an input instance: the sum of all its quotas, of the
\* women/parents counts, of the head counts above 1 and of the number of
\* force and reject triples.
MaxWeight == 2
\* Largest configured solution cap (max_sols ranges over 0..MaxSols).
MaxSols == 2
\* Number of solve calls made on one Instance object.
MaxSolves == 2

\* The (n_p_units, n_days, n_tasks) shapes an Instance is constructed with.
Shapes == { <<2, 1, 1>>, <<3, 1, 1>>, <<1, 1, 2>>, <<1, 2, 1>>, <<1, 3, 1>> }
\* The labels of the constraint families.
ConstraintIds == 1..7
\* The values passed as relax: nothing relaxed, or one family relaxed.
RelaxChoices == {{}} \cup {{f} : f \in ConstraintIds}

VARIABLES
    n_p_units, n_days, n_tasks,     \* Instance._n_p_units, _n_days, _n_tasks
    n_people, n_women, n_parents,   \* per-unit vectors
    people_per_task, women_per_task, parents_per_task,  \* (day, task) matrices
    force, reject,                  \* sets of triples
    max_sols,                       \* Instance.max_sols
    model,                          \* constraints added to Instance.model
    solution_list,                  \* Instance.solution_list
    n_solutions,                    \* Instance.n_solutions (-1 while not set)
    status,                         \* Instance.status ("unset" while not set)
    pc,                             \* "idle" | "searching"
    relax, min_gap,                 \* arguments of the current/last solve
    solution_count,                 \* SolutionBuilder._solution_count
    stop_requested,                 \* StopSearch() was called
    remaining,                      \* satisfying assignments the solver has
                                    \* not reported yet in this search
    time_cap_fired,                 \* the last search ended on max_time
    raised,                         \* exception of the last call (NoError
                                    \* when it returned normally)
    calls,                          \* number of solve calls begun
    assigned,                       \* the value last assigned to an attribute
                                    \* of the Instance: which one, its shape
    prb_info,                       \* make_group: the ProblemInfo passed in
    list_of_ids,                    \* make_group: the keys passed in
    new_prb_info,                   \* make_group: the ProblemInfo returned
    groupings,                      \* number of make_group calls begun
    sheets,                         \* what the three readers of data_input
                                    \* returned to get_problem_info
    solution,                       \* sol_to_array: the tensor passed in
    sol_array,                      \* sol_to_array: the rows returned
    days_worked                     \* sol_to_array: the counts returned

dataVars == <<n_p_units, n_days, n_tasks, n_people, n_women, n_parents,
              people_per_task, women_per_task, parents_per_task,
              force, reject, max_sols>>
\* What the callers of the Instance hold besides the Instance itself.
groupVars == <<prb_info, list_of_ids, new_prb_info, groupings>>
arrayVars == <<solution, sol_array, days_worked>>
inputVars == <<assigned, groupVars, sheets, arrayVars>>
vars == <<dataVars, model, solution_list, n_solutions, status, pc, relax,
          min_gap, solution_count, stop_requested, remaining,
          time_cap_fired, raised, calls, inputVars>>

Units == 0..(n_p_units - 1)
Days == 0..(n_days - 1)
Tasks == 0..(n_tasks - 1)
Cells == Days \X Tasks
Triples == Units \X Days \X Tasks

RECURSIVE SumOver(_, _)
\* Python's sum(f[t] for t in S).
SumOver(f, S) ==
    IF S = {} THEN 0
    ELSE LET t == CHOOSE u \in S : TRUE IN f[t] + SumOver(f, S \ {t})

(***************************************************************************)
(* Instance.__init__ and the property setters: the state after an Instance *)
(* has been constructed and every attribute assigned.  The model starts    *)
(* with the decision variables only (no constraint), see lines 92-116.     *)
(***************************************************************************)
NoError == [type |-> "none", what |-> "none", cells |-> {}]
NoAssignment == [attr |-> "none", shape |-> << >>]
\* No ProblemInfo: nothing was passed in, or nothing was returned.
NoInfo ==
    [n_p_units |-> 0, n_days |-> 0, n_tasks |-> 0, tasks |-> << >>,
     ids |-> << >>, names |-> << >>, days |-> << >>,
     people_per_task |-> << >>, women_per_task |-> << >>,
     parents_per_task |-> << >>, n_people |-> << >>, n_women |-> << >>,
     n_parents |-> << >>, reject |-> << >>, force |-> << >>]
\* No sheet has been read.
NoSheets ==
    [tasks |-> << >>, people |-> << >>, tasks_check |-> << >>,
     people_demand |-> << >>, women_demand |-> << >>,
     parents_demand |-> << >>, days |-> << >>, sheet_info |-> << >>]
\* Neither get_problem_info nor make_group has been called.
NoGrouping ==
    /\ sheets = NoSheets
    /\ prb_info = NoInfo
    /\ list_of_ids = << >>
    /\ new_prb_info = NoInfo
    /\ groupings = 0

\* sol_to_array has not been called.
NoSolution == [shape |-> <<0, 0, 0>>, value |-> << >>]
NoArray == solution = NoSolution /\ sol_array = << >> /\ days_worked = << >>

\* The inputs are enumerated by size (see MaxWeight): each attribute may use
\* what the attributes before it left of the budget.
HeadWeight(np) == SumOver([i \in DOMAIN np |-> np[i] - 1], DOMAIN np)
VecWeight(v) == SumOver(v, DOMAIN v)

Init ==
    /\ \E sh \in Shapes :
          /\ n_p_units = sh[1]
          /\ n_days = sh[2]
          /\ n_tasks = sh[3]
    /\ n_people \in { v \in [Units -> 1..(1 + MaxWeight)] :
                      HeadWeight(v) <= MaxWeight }
    /\ n_women \in { v \in [Units -> 0..MaxWeight] :
                     /\ \A i \in Units : v[i] <= n_people[i]
                     /\ HeadWeight(n_people) + VecWeight(v) <= MaxWeight }
    /\ n_parents \in { v \in [Units -> 0..MaxWeight] :
                       /\ \A i \in Units : v[i] <= n_people[i]
                       /\ HeadWeight(n_people) + VecWeight(n_women)
                            + VecWeight(v) <= MaxWeight }
    /\ \E left \in 0..MaxWeight :
          /\ left = MaxWeight - HeadWeight(n_people) - VecWeight(n_women)
                      - VecWeight(n_parents)
          /\ people_per_task \in { m \in [Cells -> 0..left] :
                                   VecWeight(m) <= left }
          /\ women_per_task \in { m \in [Cells -> 0..left] :
                                  VecWeight(people_per_task) + VecWeight(m)
                                    <= left }
          /\ parents_per_task \in { m \in [Cells -> 0..left] :
                                    VecWeight(people_per_task)
                                      + VecWeight(women_per_task)
                                      + VecWeight(m) <= left }
          /\ force \in { F \in SUBSET Triples :
                         VecWeight(people_per_task) + VecWeight(women_per_task)
                           + VecWeight(parents_per_task) + Cardinality(F)
                           <= left }
          /\ reject \in { R \in SUBSET Triples :
                          VecWeight(people_per_task) + VecWeight(women_per_task)
                            + VecWeight(parents_per_task) + Cardinality(force)
                            + Cardinality(R) <= left }
    /\ max_sols \in 0..MaxSols
    /\ model = {}
    /\ solution_list = << >>
    /\ n_solutions = -1
    /\ status = "unset"
    /\ pc = "idle"
    /\ relax = {}
    /\ min_gap = 0
    /\ solution_count = 0
    /\ stop_requested = FALSE
    /\ remaining = {}
    /\ time_cap_fired = FALSE
    /\ raised = NoError
    /\ calls = 0
    /\ assigned = NoAssignment
    /\ NoGrouping
    /\ NoArray

(***************************************************************************)
(* The property setters of Instance (lines 141-249).  An array argument is *)
(* a record [shape, data]; a list argument is a set of tuples.  Arguments  *)
(* are ndarrays and lists of tuples: the TypeError branches are not taken. *)
(***************************************************************************)
ShapeError(a) == [type |-> "ShapeError", what |-> a, cells |-> {}]

Array(shape, data) == [shape |-> shape, data |-> data]
ZeroMatrix(d, t) == Array(<<d, t>>, [c \in (0..(d - 1)) \X (0..(t - 1)) |-> 0])
ZeroVector(n) == Array(<<n>>, [i \in 0..(n - 1) |-> 0])

\* The size of the Instance's data, as Init measures it.
InstanceWeight ==
    HeadWeight(n_people) + VecWeight(n_women) + VecWeight(n_parents)
      + VecWeight(people_per_task) + VecWeight(women_per_task)
      + VecWeight(parents_per_task) + Cardinality(force) + Cardinality(reject)
\* What an attribute of weight w may be replaced with inside the budget.
Room(w) == MaxWeight - InstanceWeight + w

\* Arguments of the matrix setters: any matrix of the right shape that fits
\* the budget, and matrices with one or both dimensions too long.
MatrixArgs(current) ==
    { Array(<<n_days, n_tasks>>, m) :
        m \in { q \in [Cells -> 0..MaxWeight] :
                VecWeight(q) <= Room(VecWeight(current)) } }
    \cup { ZeroMatrix(n_days + 1, n_tasks + 1), ZeroMatrix(n_days + 1, n_tasks),
           ZeroMatrix(n_days, n_tasks + 1) }
\* Arguments of the vector setters.
VectorArgs(current) ==
    { Array(<<n_p_units>>, v) :
        v \in { q \in [Units -> 0..MaxWeight] :
                VecWeight(q) <= Room(VecWeight(current)) } }
    \cup { ZeroVector(n_p_units + 1) }
HeadArgs ==
    { Array(<<n_p_units>>, v) :
        v \in { q \in [Units -> 1..(1 + MaxWeight)] :
                HeadWeight(q) <= Room(HeadWeight(n_people)) } }
    \cup { ZeroVector(n_p_units + 1) }
\* Arguments of the list setters: lists of triples, and lists that hold the
\* pair (0, 0) after at most one triple.
ListArgs(current) ==
    { L \in SUBSET Triples : Cardinality(L) <= Room(Cardinality(current)) }
    \cup { L \cup { <<0, 0>> } : L \in { {} } \cup { {t} : t \in Triples } }
TupleLengths(L) == { Len(t) : t \in L }

\* Everything a setter leaves alone: every attribute but a, and the rest.
SetterFrame(a) ==
    /\ IF a = "people_per_task" THEN TRUE ELSE UNCHANGED people_per_task
    /\ IF a = "parents_per_task" THEN TRUE ELSE UNCHANGED parents_per_task
    /\ IF a = "women_per_task" THEN TRUE ELSE UNCHANGED women_per_task
    /\ IF a = "n_people" THEN TRUE ELSE UNCHANGED n_people
    /\ IF a = "n_parents" THEN TRUE ELSE UNCHANGED n_parents
    /\ IF a = "n_women" THEN TRUE ELSE UNCHANGED n_women
    /\ IF a = "reject" THEN TRUE ELSE UNCHANGED reject
    /\ IF a = "force" THEN TRUE ELSE UNCHANGED force
    /\ UNCHANGED <<n_p_units, n_days, n_tasks, max_sols, model, solution_list,
                   n_solutions, status, pc, relax, min_gap, solution_count,
                   stop_requested, remaining, time_cap_fired, calls,
                   groupVars, sheets, arrayVars>>

\* instance.people_per_task = Qjk
set_people_per_task(Qjk) ==
    /\ pc = "idle"
    /\ assigned' = [attr |-> "people_per_task", shape |-> Qjk.shape]
    /\ IF Qjk.shape # <<n_days, n_tasks>>
       THEN raised' = ShapeError("people_per_task")
              /\ UNCHANGED people_per_task
       ELSE raised' = NoError /\ people_per_task' = Qjk.data
    /\ SetterFrame("people_per_task")

\* instance.parents_per_task = QCjk
set_parents_per_task(QCjk) ==
    /\ pc = "idle"
    /\ assigned' = [attr |-> "parents_per_task", shape |-> QCjk.shape]
    /\ IF QCjk.shape # <<n_days, n_tasks>>
       THEN raised' = ShapeError("parents_per_task")
              /\ UNCHANGED parents_per_task
       ELSE raised' = NoError /\ parents_per_task' = QCjk.data
    /\ SetterFrame("parents_per_task")

\* instance.women_per_task = QGjk
set_women_per_task(QGjk) ==
    /\ pc = "idle"
    /\ assigned' = [attr |-> "women_per_task", shape |-> QGjk.shape]
    /\ IF QGjk.shape # <<n_days, n_tasks>>
       THEN raised' = ShapeError("women_per_task")
              /\ UNCHANGED women_per_task
       ELSE raised' = NoError /\ women_per_task' = QGjk.data
    /\ SetterFrame("women_per_task")

\* instance.n_people = Pi
set_n_people(Pi) ==
    /\ pc = "idle"
    /\ assigned' = [attr |-> "n_people", shape |-> Pi.shape]
    /\ IF Pi.shape # <<n_p_units>>
       THEN raised' = ShapeError("n_people") /\ UNCHANGED n_people
       ELSE raised' = NoError /\ n_people' = Pi.data
    /\ SetterFrame("n_people")

\* instance.n_parents = Ci
set_n_parents(Ci) ==
    /\ pc = "idle"
    /\ assigned' = [attr |-> "n_parents", shape |-> Ci.shape]
    /\ IF Ci.shape # <<n_p_units>>
       THEN raised' = ShapeError("n_parents") /\ UNCHANGED n_parents
       ELSE raised' = NoError /\ n_parents' = Ci.data
    /\ SetterFrame("n_parents")

\* instance.n_women = Gi
set_n_women(Gi) ==
    /\ pc = "idle"
    /\ assigned' = [attr |-> "n_women", shape |-> Gi.shape]
    /\ IF Gi.shape # <<n_p_units>>
       THEN raised' = ShapeError("n_women") /\ UNCHANGED n_women
       ELSE raised' = NoError /\ n_women' = Gi.data
    /\ SetterFrame("n_women")

\* instance.reject = Rijk
set_reject(Rijk) ==
    /\ pc = "idle"
    /\ assigned' = [attr |-> "reject", shape |-> TupleLengths(Rijk)]
    /\ IF \E triple \in Rijk : Len(triple) # 3
       THEN raised' = ShapeError("reject") /\ UNCHANGED reject
       ELSE raised' = NoError /\ reject' = Rijk
    /\ SetterFrame("reject")

\* The force setter storing the list before it looks at the tuples.
set_force_StoreFirst(Fijk) ==
    /\ pc = "idle"
    /\ assigned' = [attr |-> "force", shape |-> TupleLengths(Fijk)]
    /\ force' = Fijk
    /\ IF \E triple \in Fijk : Len(triple) # 3
       THEN raised' = ShapeError("force")
       ELSE raised' = NoError
    /\ SetterFrame("force")

\* instance.force = Fijk
set_force(Fijk) ==
    /\ pc = "idle"
    /\ assigned' = [attr |-> "force", shape |-> TupleLengths(Fijk)]
    /\ IF \E triple \in Fijk : Len(triple) # 3
       THEN raised' = ShapeError("force") /\ UNCHANGED force
       ELSE raised' = NoError /\ force' = Fijk
    /\ SetterFrame("force")

\* One assignment to an attribute of a constructed Instance.
NextSetters ==
    \/ assigned = NoAssignment
         /\ \E Qjk \in MatrixArgs(people_per_task) : set_people_per_task(Qjk)
    \/ assigned = NoAssignment
         /\ \E QCjk \in MatrixArgs(parents_per_task) :
               set_parents_per_task(QCjk)
    \/ assigned = NoAssignment
         /\ \E QGjk \in MatrixArgs(women_per_task) : set_women_per_task(QGjk)
    \/ assigned = NoAssignment /\ \E Pi \in HeadArgs : set_n_people(Pi)
    \/ assigned = NoAssignment
         /\ \E Ci \in VectorArgs(n_parents) : set_n_parents(Ci)
    \/ assigned = NoAssignment
         /\ \E Gi \in VectorArgs(n_women) : set_n_women(Gi)
    \/ assigned = NoAssignment /\ \E Rijk \in ListArgs(reject) : set_reject(Rijk)
    \/ assigned = NoAssignment /\ \E Fijk \in ListArgs(force) : set_force(Fijk)

SpecSetters == Init /\ [][NextSetters]_vars

(***************************************************************************)
(* The seven constraint families, as Instance.solve adds them.             *)
(***************************************************************************)
Lin(coef, op, rhs) == [coef |-> coef, op |-> op, rhs |-> rhs]

\* Constraint 1 written with >= : oversupply accepted.
Constraint1_AtLeast ==
    { Lin([t \in Triples |-> IF t[2] = c[1] /\ t[3] = c[2]
                             THEN n_people[t[1]] ELSE 0],
          "ge", people_per_task[c]) : c \in Cells }

\* [Constraint 1: Demand of people per task]
Constraint1 ==
    { Lin([t \in Triples |-> IF t[2] = c[1] /\ t[3] = c[2]
                             THEN n_people[t[1]] ELSE 0],
          "eq", people_per_task[c]) : c \in Cells }

\* Constraint 2 written with <= : the minimum taken for a maximum.
Constraint2_AtMost ==
    { Lin([t \in Triples |-> IF t[2] = c[1] /\ t[3] = c[2]
                             THEN n_parents[t[1]] ELSE 0],
          "le", parents_per_task[c]) : c \in Cells }

\* [Constraint 2: Min number of parents]
Constraint2 ==
    { Lin([t \in Triples |-> IF t[2] = c[1] /\ t[3] = c[2]
                             THEN n_parents[t[1]] ELSE 0],
          "ge", parents_per_task[c]) : c \in Cells }

\* Constraint 3 weighted by n_people instead of n_women.
Constraint3_CountsEveryone ==
    { Lin([t \in Triples |-> IF t[2] = c[1] /\ t[3] = c[2]
                             THEN n_people[t[1]] ELSE 0],
          "ge", women_per_task[c]) : c \in Cells }

\* [Constraint 3: Min number of women]
Constraint3 ==
    { Lin([t \in Triples |-> IF t[2] = c[1] /\ t[3] = c[2]
                             THEN n_women[t[1]] ELSE 0],
          "ge", women_per_task[c]) : c \in Cells }

\* Constraint 4 summed over the days of a task instead of the tasks of a day.
Constraint4_PerTask ==
    { Lin([t \in Triples |-> IF t[1] = p[1] /\ t[3] = p[2] THEN 1 ELSE 0],
          "le", 1) : p \in Units \X Tasks }

\* [Constraint 4: One task per day]
Constraint4 ==
    { Lin([t \in Triples |-> IF t[1] = p[1] /\ t[2] = p[2] THEN 1 ELSE 0],
          "le", 1) : p \in Units \X Days }

\* [Constraint 5: Force Variables]
Constraint5 ==
    { Lin([t \in Triples |-> IF t = triple THEN 1 ELSE 0], "eq", 1) :
      triple \in force }

\* Constraint 6 written with == 1, as constraint 5 is.
Constraint6_Forced ==
    { Lin([t \in Triples |-> IF t = triple THEN 1 ELSE 0], "eq", 1) :
      triple \in reject }

\* [Constraint 6: Reject Variables]
Constraint6 ==
    { Lin([t \in Triples |-> IF t = triple THEN 1 ELSE 0], "eq", 0) :
      triple \in reject }

\* [Constraint 7: Max one allocation per 4 weeks]
\* for j_0 in range(n_days - min_gap): days range(j_0, j_0 + min_gap).
Constraint7(g) ==
    { Lin([t \in Triples |-> IF t[1] = p[1] /\ t[2] \in p[2]..(p[2] + g - 1)
                             THEN 1 ELSE 0],
          "le", 1) : p \in Units \X (0..(n_days - g - 1)) }

\* The constraints one solve(relax=R, min_gap=g) call adds to self.model.
AddedConstraints(R, g) ==
    UNION { IF 1 \in R THEN {} ELSE Constraint1,
            IF 2 \in R THEN {} ELSE Constraint2,
            IF 3 \in R THEN {} ELSE Constraint3,
            IF 4 \in R THEN {} ELSE Constraint4,
            IF 5 \in R THEN {} ELSE Constraint5,
            IF 6 \in R THEN {} ELSE Constraint6,
            IF 7 \in R THEN {} ELSE Constraint7(g) }

\* Value of the left-hand side of a constraint under an assignment x.
LinValue(c, x) == SumOver([t \in Triples |-> c.coef[t] * x[t]], Triples)

Holds(c, x) ==
    CASE c.op = "eq" -> LinValue(c, x) = c.rhs
      [] c.op = "ge" -> LinValue(c, x) >= c.rhs
      [] c.op = "le" -> LinValue(c, x) <= c.rhs

\* The assignments of the boolean variables that satisfy the CP model m.
FeasibleSet(m) == { x \in [Triples -> {0, 1}] : \A c \in m : Holds(c, x) }

(***************************************************************************)
(* Instance.check_consistency                                              *)
(***************************************************************************)
gender_inconsist == { c \in Cells : women_per_task[c] > people_per_task[c] }
parent_inconsist == { c \in Cells : parents_per_task[c] > people_per_task[c] }

\* check_consistency without its second test (parents_per_task).
check_consistency_WomenOnly ==
    IF gender_inconsist # {}
    THEN [type |-> "ConsistencyError", what |-> "women_per_task",
          cells |-> gender_inconsist]
    ELSE NoError

\* The exception check_consistency raises (NoError when it returns).
check_consistency ==
    IF gender_inconsist # {}
    THEN [type |-> "ConsistencyError", what |-> "women_per_task",
          cells |-> gender_inconsist]
    ELSE IF parent_inconsist # {}
    THEN [type |-> "ConsistencyError", what |-> "parents_per_task",
          cells |-> parent_inconsist]
    ELSE NoError

(***************************************************************************)
(* Instance.solve, up to the call of SearchForAllSolutions.                *)
(***************************************************************************)
\* solve(relax=R, min_gap=g) when the consistency check raises: the solver
\* object and the empty solution_list are already in place, nothing else.
\* The list of the previous call kept for the new call.
NewSolutionList_Keep(old) == old

\* Line 287: self.solution_list = [], whatever the list held.
NewSolutionList(old) == << >>

SolveRaises(R, g) ==
    /\ pc = "idle"
    /\ check_consistency # NoError
    /\ calls' = calls + 1
    /\ relax' = R
    /\ min_gap' = g
    /\ solution_list' = NewSolutionList(solution_list)
    /\ raised' = check_consistency
    /\ UNCHANGED <<dataVars, model, n_solutions, status, pc, solution_count,
                   stop_requested, remaining, time_cap_fired, inputVars>>

\* solve(relax=R, min_gap=g) when the instance is consistent: the selected
\* families are added to self.model (which keeps what earlier calls added),
\* a new SolutionBuilder is created and the search starts.
Solve(R, g) ==
    /\ pc = "idle"
    /\ check_consistency = NoError
    /\ calls' = calls + 1
    /\ relax' = R
    /\ min_gap' = g
    /\ solution_list' = NewSolutionList(solution_list)
    /\ raised' = NoError
    /\ model' = model \cup AddedConstraints(R, g)
    /\ solution_count' = 0
    /\ stop_requested' = FALSE
    /\ remaining' = FeasibleSet(model')
    /\ time_cap_fired' = FALSE
    /\ pc' = "searching"
    /\ UNCHANGED <<dataVars, n_solutions, status, inputVars>>

(***************************************************************************)
(* SolutionBuilder.on_solution_callback, called by the solver once for     *)
(* every satisfying assignment it has not reported yet.                    *)
(***************************************************************************)
\* The tensor the callback fills: np.zeros, then every cell read by Value.
BuildSolution(x) == [t \in Triples |-> x[t]]

OnSolutionCallback ==
    /\ pc = "searching"
    /\ ~stop_requested
    /\ \E x \in remaining :
          /\ remaining' = remaining \ {x}
          /\ solution_list' = Append(solution_list, BuildSolution(x))
    /\ solution_count' = solution_count + 1
    /\ stop_requested' = (solution_count + 1 >= max_sols)
    /\ UNCHANGED <<dataVars, model, n_solutions, status, pc, relax, min_gap,
                   time_cap_fired, raised, calls, inputVars>>

(***************************************************************************)
(* SearchForAllSolutions returns; solve stores status and n_solutions.     *)
(***************************************************************************)
Return(st, timeout) ==
    /\ status' = st
    /\ n_solutions' = solution_count
    /\ time_cap_fired' = timeout
    /\ pc' = "idle"
    /\ UNCHANGED <<dataVars, model, solution_list, relax, min_gap,
                   solution_count, stop_requested, remaining, raised, calls,
                   inputVars>>

\* The callback asked for the search to stop.
SearchStopped ==
    /\ pc = "searching"
    /\ stop_requested
    /\ Return("FEASIBLE", FALSE)

\* Every satisfying assignment has been reported.
SearchExhausted ==
    /\ pc = "searching"
    /\ ~stop_requested
    /\ remaining = {}
    /\ Return(IF solution_count > 0 THEN "OPTIMAL" ELSE "INFEASIBLE", FALSE)

\* max_time_in_seconds elapsed before the search was complete.
SearchTimeout ==
    /\ pc = "searching"
    /\ ~stop_requested
    /\ Return(IF solution_count > 0 THEN "FEASIBLE" ELSE "UNKNOWN", TRUE)

\* The values passed as min_gap: a window of at least one day that fits in
\* the horizon.
Gaps == 1..n_days

\* One solve call on a freshly constructed Instance.
Next ==
    \/ calls = 0 /\ \E R \in RelaxChoices, g \in Gaps : SolveRaises(R, g)
    \/ calls = 0 /\ \E R \in RelaxChoices, g \in Gaps : Solve(R, g)
    \/ OnSolutionCallback
    \/ SearchStopped
    \/ SearchExhausted
    \/ SearchTimeout

Spec == Init /\ [][Next]_vars

\* Up to MaxSolves solve calls on the same Instance (retry with relaxation).
NextRetry ==
    \/ calls < MaxSolves
         /\ \E R \in RelaxChoices, g \in Gaps : SolveRaises(R, g)
    \/ calls < MaxSolves /\ \E R \in RelaxChoices, g \in Gaps : Solve(R, g)
    \/ OnSolutionCallback
    \/ SearchStopped
    \/ SearchExhausted
    \/ SearchTimeout

SpecRetry == Init /\ [][NextRetry]_vars

(***************************************************************************)
(* Part 2: src/sapi.py -- make_group.                                      *)
(*                                                                         *)
(* A ProblemInfo is a record with the fields of the namedtuple.  Its lists *)
(* are sequences: the unit of index i is at position i + 1.  Strings are   *)
(* sequences of pieces, so that + is \o: the name "Ana, Bia" is            *)
(* <<"Ana", ", ", "Bia">>.  An identifier is written out in tokens: a key  *)
(* of the roster is one token, a Python list of identifiers is "[", the    *)
(* identifiers in order, "]".                                              *)
(***************************************************************************)
Range(s) == { s[p] : p \in 1..Len(s) }
\* list.index(x), as a position of the sequence.
IndexOf(s, x) ==
    CHOOSE p \in 1..Len(s) : s[p] = x /\ \A q \in 1..(p - 1) : s[q] # x
\* The list left by list.pop(index).
Pop(s, p) == SubSeq(s, 1, p - 1) \o SubSeq(s, p + 1, Len(s))
RECURSIVE Concat(_)
Concat(ss) == IF ss = << >> THEN << >> ELSE Head(ss) \o Concat(Tail(ss))
\* The lists a Python set can be turned into by list(set(...)).
Orderings(S) ==
    { l \in [1..Cardinality(S) -> S] : { l[p] : p \in 1..Cardinality(S) } = S }

\* The identifier of a group that is the constituents' tokens, unwrapped.
ListId_Flat(new_ids) == Concat(new_ids)

\* The Python list new_ids as an identifier.
ListId(new_ids) == <<"[">> \o Concat(new_ids) \o <<"]">>

\* The local variables of make_group before its first loop (lines 64-88).
GroupStart(info) ==
    [names |-> info.names, instance_ids |-> info.ids,
     people |-> 0, women |-> 0, parents |-> 0,
     new_names |-> << >>, new_ids |-> << >>,
     n_p_units |-> info.n_p_units,
     n_people |-> info.n_people, n_women |-> info.n_women,
     n_parents |-> info.n_parents,
     first_name |-> TRUE, indexes_of_group |-> << >>,
     index_struct |-> [p \in 1..info.n_p_units |-> p - 1],
     failed |-> FALSE]

\* new_names without the ', ' between two names.
JoinName_NoSeparator(new_names, first_name, name) == new_names \o name

\* Lines 96-99: new_names after one more name.
JoinName(new_names, first_name, name) ==
    (IF first_name THEN new_names ELSE new_names \o <<", ">>) \o name

\* A key that is not in instance_ids is passed over.
OnMissingKey_Skip(st) == st

\* instance_ids.index(id_) raises ValueError: make_group is left at once.
OnMissingKey(st) == [st EXCEPT !.failed = TRUE]

\* One round of the loop of lines 90-101.
GroupStep(st, id_) ==
    IF st.failed THEN st
    ELSE IF id_ \notin Range(st.instance_ids) THEN OnMissingKey(st)
    ELSE LET index == IndexOf(st.instance_ids, id_) IN
         [names |-> Pop(st.names, index),
          instance_ids |-> Pop(st.instance_ids, index),
          people |-> st.people + st.n_people[index],
          women |-> st.women + st.n_women[index],
          parents |-> st.parents + st.n_parents[index],
          new_names |-> JoinName(st.new_names, st.first_name, st.names[index]),
          new_ids |-> Append(st.new_ids, st.instance_ids[index]),
          n_p_units |-> st.n_p_units - 1,
          n_people |-> Pop(st.n_people, index),
          n_women |-> Pop(st.n_women, index),
          n_parents |-> Pop(st.n_parents, index),
          first_name |-> FALSE,
          indexes_of_group |->
              Append(st.indexes_of_group, st.index_struct[index]),
          index_struct |-> Pop(st.index_struct, index),
          failed |-> FALSE]

RECURSIVE GroupLoop(_, _)
\* for id_ in list_of_ids: ...
GroupLoop(st, keys) ==
    IF keys = << >> THEN st
    ELSE GroupLoop(GroupStep(st, Head(keys)), Tail(keys))

\* The index of the group, counted after the group has been appended.
GroupIndex_AfterAppend(keys, info) == info.n_p_units - Len(keys) + 1

\* Line 82.
GroupIndex(keys, info) == info.n_p_units - Len(keys)

\* The unit index left where it was.
NewIndex_Unshifted(st, group_index, i) ==
    IF i \in Range(st.indexes_of_group) THEN group_index ELSE i

\* Lines 104-107 and 109-112: the new index of the unit of old index i.
NewIndex(st, group_index, i) ==
    IF i \in Range(st.indexes_of_group) THEN group_index
    ELSE IndexOf(st.index_struct, i) - 1

\* Lines 103-115: the triples of a list rewritten, then set(...) of them.
RewriteTriples(st, group_index, triples) ==
    { <<NewIndex(st, group_index, t[1]), t[2], t[3]>> : t \in Range(triples) }

\* Nothing removed from force.
ResolveConflicts_KeepAll(F, R) == F

\* Line 116: the force triples that are not in reject.
ResolveConflicts(F, R) == F \ R

ValueError == [type |-> "ValueError", what |-> "list_of_ids", cells |-> {}]

\* The local list names is the list prb_info.names itself.
AliasedFields_Names == {"names"}

\* Lines 64-67 and 76-78: the lists make_group changes in place (pop,
\* append, item assignment) are copies; none is a list of prb_info.
AliasedFields == {}

\* A list of triples after the item assignments of lines 103-112.
RewriteInPlace(st, group_index, triples) ==
    [p \in 1..Len(triples) |->
        <<NewIndex(st, group_index, triples[p][1]),
          triples[p][2], triples[p][3]>>]

\* The ProblemInfo passed in, as its holder sees it once make_group has
\* returned or raised: st holds the local variables after the loop of
\* lines 90-101, left at the failing key when there is one.
InputAfter(keys, info, st) ==
    [info EXCEPT
       !.names = IF "names" \notin AliasedFields THEN @
                 ELSE IF st.failed THEN st.names
                 ELSE Append(st.names, st.new_names),
       !.ids = IF "ids" \notin AliasedFields THEN @
               ELSE IF st.failed THEN st.instance_ids
               ELSE Append(st.instance_ids, ListId(st.new_ids)),
       !.n_people = IF "n_people" \notin AliasedFields THEN @
                    ELSE st.n_people,
       !.n_women = IF "n_women" \notin AliasedFields THEN @
                   ELSE st.n_women,
       !.n_parents = IF "n_parents" \notin AliasedFields THEN @
                     ELSE st.n_parents,
       !.force = IF "force" \notin AliasedFields \/ st.failed THEN @
                 ELSE RewriteInPlace(st, GroupIndex(keys, info), @),
       !.reject = IF "reject" \notin AliasedFields \/ st.failed THEN @
                  ELSE RewriteInPlace(st, GroupIndex(keys, info), @)]

\* new_prb_info = make_group(keys, info)
MakeGroup(keys, info) ==
    /\ pc = "idle"
    /\ groupings' = groupings + 1
    /\ prb_info' = InputAfter(keys, info, GroupLoop(GroupStart(info), keys))
    /\ list_of_ids' = keys
    /\ LET st == GroupLoop(GroupStart(info), keys)
           group_index == GroupIndex(keys, info)
       IN  IF st.failed
           THEN raised' = ValueError /\ new_prb_info' = NoInfo
           ELSE /\ raised' = NoError
                /\ \E reject_list \in
                       Orderings(RewriteTriples(st, group_index, info.reject)) :
                   \E force_list \in
                       Orderings(ResolveConflicts(
                           RewriteTriples(st, group_index, info.force),
                           Range(reject_list))) :
                     new_prb_info' =
                       [n_p_units |-> st.n_p_units + 1,
                        n_days |-> info.n_days,
                        n_tasks |-> info.n_tasks,
                        tasks |-> info.tasks,
                        ids |-> Append(st.instance_ids, ListId(st.new_ids)),
                        names |-> Append(st.names, st.new_names),
                        days |-> info.days,
                        people_per_task |-> info.people_per_task,
                        women_per_task |-> info.women_per_task,
                        parents_per_task |-> info.parents_per_task,
                        n_people |-> Append(st.n_people, st.people),
                        n_women |-> Append(st.n_women, st.women),
                        n_parents |-> Append(st.n_parents, st.parents),
                        reject |-> reject_list,
                        force |-> force_list]
    /\ UNCHANGED <<dataVars, model, solution_list, n_solutions, status, pc,
                   relax, min_gap, solution_count, stop_requested, remaining,
                   time_cap_fired, calls, assigned, sheets, arrayVars>>

\* The rosters make_group is given: one to three single people.
RosterIds == << <<"a">>, <<"b">>, <<"c">> >>
RosterNames == << <<"Ana">>, <<"Bia">>, <<"Caio">> >>
\* A key that no unit has.
UnknownId == <<"zz">>
GroupDays == <<"d0", "d1">>
GroupTasks == <<"t0">>
GroupCells == (0..(Len(GroupDays) - 1)) \X (0..(Len(GroupTasks) - 1))
InfoTriples(n) ==
    (0..(n - 1)) \X (0..(Len(GroupDays) - 1)) \X (0..(Len(GroupTasks) - 1))
\* The lists of at most room triples, repetitions included.
TripleLists(n, room) == UNION { [1..l -> InfoTriples(n)] : l \in 0..room }

\* No Instance has been constructed.
NoInstance ==
    /\ n_p_units = 0 /\ n_days = 0 /\ n_tasks = 0
    /\ n_people = << >> /\ n_women = << >> /\ n_parents = << >>
    /\ people_per_task = << >>
    /\ women_per_task = << >>
    /\ parents_per_task = << >>
    /\ force = {} /\ reject = {}
    /\ max_sols = 0
    /\ model = {}
    /\ solution_list = << >>
    /\ n_solutions = -1
    /\ status = "unset"
    /\ pc = "idle"
    /\ relax = {}
    /\ min_gap = 0
    /\ solution_count = 0
    /\ stop_requested = FALSE
    /\ remaining = {}
    /\ time_cap_fired = FALSE
    /\ raised = NoError
    /\ calls = 0
    /\ assigned = NoAssignment

\* The ProblemInfo make_group is first called with, enumerated by size as
\* the Instance data are.
InitGroup ==
    /\ NoInstance
    /\ NoArray
    /\ sheets = NoSheets
    /\ list_of_ids = << >>
    /\ new_prb_info = NoInfo
    /\ groupings = 0
    /\ \E n \in 1..Len(RosterIds) :
       \E np \in { v \in [1..n -> 1..(1 + MaxWeight)] :
                   HeadWeight(v) <= MaxWeight } :
       \E nw \in { v \in [1..n -> 0..MaxWeight] :
                   /\ \A p \in 1..n : v[p] <= np[p]
                   /\ HeadWeight(np) + VecWeight(v) <= MaxWeight } :
       \E npar \in { v \in [1..n -> 0..MaxWeight] :
                     /\ \A p \in 1..n : v[p] <= np[p]
                     /\ HeadWeight(np) + VecWeight(nw) + VecWeight(v)
                          <= MaxWeight } :
       \E F \in TripleLists(n, MaxWeight - HeadWeight(np) - VecWeight(nw)
                                 - VecWeight(npar)) :
       \E R \in TripleLists(n, MaxWeight - HeadWeight(np) - VecWeight(nw)
                                 - VecWeight(npar) - Len(F)) :
          prb_info =
            [n_p_units |-> n,
             n_days |-> Len(GroupDays),
             n_tasks |-> Len(GroupTasks),
             tasks |-> GroupTasks,
             ids |-> SubSeq(RosterIds, 1, n),
             names |-> SubSeq(RosterNames, 1, n),
             days |-> GroupDays,
             people_per_task |-> [c \in GroupCells |-> 1],
             women_per_task |-> [c \in GroupCells |-> 0],
             parents_per_task |-> [c \in GroupCells |-> 0],
             n_people |-> np, n_women |-> nw, n_parents |-> npar,
             reject |-> R, force |-> F]

\* The values passed as list_of_ids: up to three keys, each a key of the
\* roster or the unknown key, repetitions included.
KeyLists(info) ==
    UNION { [1..l -> Range(info.ids) \cup {UnknownId}] :
            l \in 0..Len(RosterIds) }
\* The key lists that name the last unit, alone or with one other unit.
LastUnitKeyLists(info) ==
    LET last == info.ids[info.n_p_units] IN
    { <<last>> } \cup { <<last, o>> : o \in Range(info.ids) \ {last} }
                 \cup { <<o, last>> : o \in Range(info.ids) \ {last} }

\* main() groups once, then groups again what the first call returned.
NextGroup ==
    \/ groupings = 0
         /\ \E keys \in KeyLists(prb_info) : MakeGroup(keys, prb_info)
    \/ groupings = 1 /\ raised = NoError
         /\ \E keys \in LastUnitKeyLists(new_prb_info) :
               MakeGroup(keys, new_prb_info)

SpecGroup == InitGroup /\ [][NextGroup]_vars

(***************************************************************************)
(* Part 3: src/src/data_input.py -- get_problem_info, from what the three  *)
(* readers returned: tasks and people (roster sheet), tasks_check and the  *)
(* three demands (demand sheet), days and sheet_info (availability sheet). *)
(* people is the dict in its order, one record per key.  An answer of the  *)
(* roster sheet is compared character by character, so it is a sequence   *)
(* of characters (runs of ASCII characters are kept together).             *)
(***************************************************************************)
\* The answers found in the roster sheet (tests/test_data_input.py 30-34):
\* 'Aceito', and N, a-tilde, "o Aceito".
AnswAccept == <<"Aceito">>
AnswRefuse == <<"N", "U+00E3", "o Aceito">>
\* The literal of line 219: N, A-tilde, pound sign, "o Aceito".
RefuseLiteral == <<"N", "U+00C3", "U+00A3", "o Aceito">>
\* The answers a cell of the roster sheet is given.
Answers == { AnswAccept, AnswRefuse, RefuseLiteral }

\* Line 219: the answer for which reject triples are emitted.
IsRefusal(answ) == answ = RefuseLiteral

\* exp_threshold (default).
ExpThreshold == 3

\* A parent is someone above the threshold.
IsParent_Above(person) == person.exp_level > ExpThreshold

\* Lines 215-216: who counts as experienced (a parent).
IsParent(person) == person.exp_level >= ExpThreshold

\* id_to_i[id_]
IdToI(people, id_) ==
    (CHOOSE p \in 1..Len(people) : people[p].id = id_) - 1

\* Lines 217-223: the reject triples of the answers.
AnswerRejects(sh) ==
    { <<x[1] - 1, x[3], IndexOf(sh.tasks, x[2]) - 1>> :
        x \in { y \in (1..Len(sh.people)) \X Range(sh.tasks)
                       \X (0..(Len(sh.days) - 1)) :
                IsRefusal(sh.people[y[1]].task_answ[y[2]]) } }

\* Lines 227-234: the force triples of the availability sheet.
SheetForce(sh) ==
    { <<IdToI(sh.people, e[1]), IndexOf(sh.days, e[2]) - 1,
        IndexOf(sh.tasks, e[3]) - 1>> :
        e \in { x \in Range(sh.sheet_info) : x[3] \in Range(sh.tasks) } }

\* Lines 227-238: the reject triples of the availability sheet.
SheetRejects(sh) ==
    { <<IdToI(sh.people, x[1][1]), IndexOf(sh.days, x[1][2]) - 1, x[2]>> :
        x \in { e \in Range(sh.sheet_info) :
                e[3] \notin Range(sh.tasks) /\ e[3] = "indisp" }
              \X (0..(Len(sh.tasks) - 1)) }

\* Lines 192-197: a demand repeated on every day.
DemandMatrix(sh, demand) ==
    [c \in (0..(Len(sh.days) - 1)) \X (0..(Len(sh.tasks) - 1)) |->
        demand[sh.tasks[c[2] + 1]]]

ConsistencyBetweenFilesError ==
    [type |-> "ConsistencyBetweenFilesError", what |-> "tasks", cells |-> {}]

\* prb_info = get_problem_info(...)
GetProblemInfo ==
    /\ pc = "idle"
    /\ prb_info = NoInfo
    /\ raised = NoError
    /\ IF sheets.tasks # sheets.tasks_check
       THEN raised' = ConsistencyBetweenFilesError /\ UNCHANGED prb_info
       ELSE /\ raised' = NoError
            /\ \E force_list \in Orderings(SheetForce(sheets)) :
               \E reject_list \in
                   Orderings(AnswerRejects(sheets) \cup SheetRejects(sheets)) :
                 prb_info' =
                   [n_p_units |-> Len(sheets.people),
                    n_days |-> Len(sheets.days),
                    n_tasks |-> Len(sheets.tasks),
                    tasks |-> sheets.tasks,
                    ids |-> [p \in 1..Len(sheets.people) |->
                                sheets.people[p].id],
                    names |-> [p \in 1..Len(sheets.people) |->
                                  sheets.people[p].name],
                    days |-> sheets.days,
                    people_per_task |->
                        DemandMatrix(sheets, sheets.people_demand),
                    women_per_task |->
                        DemandMatrix(sheets, sheets.women_demand),
                    parents_per_task |->
                        DemandMatrix(sheets, sheets.parents_demand),
                    n_people |-> [p \in 1..Len(sheets.people) |-> 1],
                    n_women |-> [p \in 1..Len(sheets.people) |->
                        IF sheets.people[p].gender = "F" THEN 1 ELSE 0],
                    n_parents |-> [p \in 1..Len(sheets.people) |->
                        IF IsParent(sheets.people[p]) THEN 1 ELSE 0],
                    reject |-> reject_list,
                    force |-> force_list]
    /\ UNCHANGED <<dataVars, model, solution_list, n_solutions, status, pc,
                   relax, min_gap, solution_count, stop_requested, remaining,
                   time_cap_fired, calls, assigned, sheets, list_of_ids,
                   new_prb_info, groupings, arrayVars>>

\* The sheets: two tasks; two day columns, with different labels or with the
\* same label; the demand sheet lists the same tasks, the same tasks in
\* another order, or another task.
InfoTasks == <<"T1", "T2">>
\* The first cells of the day columns: datetimes, here a date and an hour.
\* Two columns on different dates, on the same date and hour, and on the
\* same date at different hours.
DayHeaders ==
    { << [date |-> "d0", hour |-> 0], [date |-> "d1", hour |-> 0] >>,
      << [date |-> "d0", hour |-> 0], [date |-> "d0", hour |-> 0] >>,
      << [date |-> "d0", hour |-> 0], [date |-> "d0", hour |-> 9] >> }
\* value.strftime('%d/%m/%Y')
DayLabel(value) == value.date
\* read_solution_sheet: col_to_day has one entry per day column, and days
\* is the list of its values.
ReadDays(headers) == [c \in 1..Len(headers) |-> DayLabel(headers[c])]
DayLists == { ReadDays(headers) : headers \in DayHeaders }
TaskCheckLists == { <<"T1", "T2">>, <<"T2", "T1">>, <<"T1", "T3">> }
\* The values of the cells of the availability sheet.
CellValues == Range(InfoTasks) \cup { "indisp", "not_allocated" }
\* The number of p for which P(p) holds.
CountOf(n, P(_)) == Cardinality({ p \in 1..n : P(p) })
\* The answers that are not 'Aceito'.
AnswerWeight(n, answ) ==
    Cardinality({ x \in (1..n) \X Range(InfoTasks) :
                  answ[x[1]][x[2]] # AnswAccept })
\* The lists of at most room cells of the availability sheet of n people.
SheetLists(n, days, room) ==
    UNION { [1..l -> Range(SubSeq(RosterIds, 1, n)) \X Range(days)
                       \X CellValues] : l \in 0..room }

\* What the readers returned, enumerated by size: every woman, every
\* experienced person, every answer other than 'Aceito' and every filled
\* cell of the availability sheet counts for one.
InitInfo ==
    /\ NoInstance
    /\ NoArray
    /\ prb_info = NoInfo
    /\ list_of_ids = << >>
    /\ new_prb_info = NoInfo
    /\ groupings = 0
    /\ \E n \in 1..Len(RosterIds), days \in DayLists,
          check \in TaskCheckLists :
       \E gender \in { g \in [1..n -> {"F", "M"}] :
                       CountOf(n, LAMBDA p : g[p] = "F") <= MaxWeight } :
       \E exp \in { v \in [1..n -> {ExpThreshold - 1, ExpThreshold}] :
                    CountOf(n, LAMBDA p : gender[p] = "F")
                      + CountOf(n, LAMBDA p : v[p] = ExpThreshold)
                      <= MaxWeight } :
       \E answ \in { a \in [1..n -> [Range(InfoTasks) -> Answers]] :
                     CountOf(n, LAMBDA p : gender[p] = "F")
                       + CountOf(n, LAMBDA p : exp[p] = ExpThreshold)
                       + AnswerWeight(n, a) <= MaxWeight } :
       \E info \in SheetLists(n, days,
                       MaxWeight - CountOf(n, LAMBDA p : gender[p] = "F")
                         - CountOf(n, LAMBDA p : exp[p] = ExpThreshold)
                         - AnswerWeight(n, answ)) :
          sheets =
            [tasks |-> InfoTasks,
             people |-> [p \in 1..n |->
                           [id |-> RosterIds[p], name |-> RosterNames[p],
                            gender |-> gender[p], exp_level |-> exp[p],
                            task_answ |-> answ[p]]],
             tasks_check |-> check,
             people_demand |-> [t \in Range(check) |->
                                   IF t = "T1" THEN 2 ELSE 1],
             women_demand |-> [t \in Range(check) |->
                                  IF t = "T1" THEN 1 ELSE 0],
             parents_demand |-> [t \in Range(check) |->
                                    IF t = "T1" THEN 0 ELSE 1],
             days |-> days,
             sheet_info |-> info]

NextInfo == GetProblemInfo

SpecInfo == InitInfo /\ [][NextInfo]_vars

(***************************************************************************)
(* Part 4: src/sapi.py -- sol_to_array.                                    *)
(*                                                                         *)
(* A solution is its shape and its value at every (unit, day, task); the   *)
(* cells of the array are strings, that is sequences of pieces.            *)
(***************************************************************************)
\* The string left without its last separator.
StripSeparator_Keep(people) == people

\* if people.endswith(', '): people = people[0:-2]
StripSeparator(people) ==
    IF people # << >> /\ people[Len(people)] = ", "
    THEN SubSeq(people, 1, Len(people) - 1)
    ELSE people

RECURSIVE PeopleLoop(_, _, _, _, _)
\* The string people after the units 0..i-1 of the inner loop, for the day
\* j and the task k.
PeopleLoop(sol, info, j, k, i) ==
    IF i = 0 THEN << >>
    ELSE LET people == PeopleLoop(sol, info, j, k, i - 1)
         IN  IF sol.value[<<i - 1, j, k>>] = 1
             THEN people \o info.names[i] \o <<", ">>
             ELSE people

\* The row of the task k: its name, then one cell per day.
ArrayRow(sol, info, k) ==
    << <<info.tasks[k + 1]>> >> \o
    [c \in 1..sol.shape[2] |->
        StripSeparator(PeopleLoop(sol, info, c - 1, k, sol.shape[1]))]

\* The number of times days_worked[i] += 1 is executed.
DaysWorked(sol, i) ==
    Cardinality({ c \in (0..(sol.shape[2] - 1)) \X (0..(sol.shape[3] - 1)) :
                  sol.value[<<i, c[1], c[2]>>] = 1 })

SolToArray ==
    /\ pc = "idle"
    /\ solution # NoSolution
    /\ sol_array = << >>
    /\ sol_array' =
         << << <<" ">> >> \o [c \in 1..Len(prb_info.days) |->
                                <<prb_info.days[c]>>] >> \o
         [r \in 1..solution.shape[3] |-> ArrayRow(solution, prb_info, r - 1)]
    /\ days_worked' =
         [p \in 1..Len(prb_info.names) |-> DaysWorked(solution, p - 1)]
    /\ UNCHANGED <<dataVars, model, solution_list, n_solutions, status, pc,
                   relax, min_gap, solution_count, stop_requested, remaining,
                   time_cap_fired, raised, calls, assigned, groupVars, sheets,
                   solution>>

\* The units sol_to_array is given: a person, a group of two, a person.
ArrayIds == << <<"a">>, <<"[", "b", "c", "]">>, <<"d">> >>
ArrayNames == << <<"Ana">>, <<"Bia", ", ", "Caio">>, <<"Dora">> >>
\* The 0/1 tensors of a shape.
ShapedTensors(shape) ==
    [(0..(shape[1] - 1)) \X (0..(shape[2] - 1)) \X (0..(shape[3] - 1))
        -> {0, 1}]

\* A ProblemInfo of one to three units, two days and two tasks, and any 0/1
\* tensor of its shape.
InitArray ==
    /\ NoInstance
    /\ sheets = NoSheets
    /\ list_of_ids = << >>
    /\ new_prb_info = NoInfo
    /\ groupings = 0
    /\ sol_array = << >>
    /\ days_worked = << >>
    /\ \E n \in 1..Len(ArrayNames) :
          /\ prb_info =
               [NoInfo EXCEPT !.n_p_units = n,
                              !.n_days = Len(GroupDays),
                              !.n_tasks = Len(InfoTasks),
                              !.tasks = InfoTasks,
                              !.ids = SubSeq(ArrayIds, 1, n),
                              !.names = SubSeq(ArrayNames, 1, n),
                              !.days = GroupDays,
                              !.n_people = [p \in 1..n |->
                                              IF p = 2 THEN 2 ELSE 1],
                              !.n_women = [p \in 1..n |-> 0],
                              !.n_parents = [p \in 1..n |-> 0]]
          /\ \E value \in ShapedTensors(<<n, Len(GroupDays), Len(InfoTasks)>>) :
                solution = [shape |-> <<n, Len(GroupDays), Len(InfoTasks)>>,
                            value |-> value]

NextArray == SolToArray

SpecArray == InitArray /\ [][NextArray]_vars

(***************************************************************************)
(* Vocabulary of the properties.                                           *)
(***************************************************************************)
\* solve has returned normally and no call is running.
Returned == pc = "idle" /\ calls >= 1 /\ raised = NoError

\* The search ran to the end: neither the time cap nor StopSearch ended it.
SearchComplete == Returned /\ ~time_cap_fired /\ ~stop_requested

\* The tensors stored in solution_list.
Stored == { solution_list[n] : n \in 1..Len(solution_list) }

\* All U x D x T boolean tensors.
Tensors == [Triples -> {0, 1}]

Headcount(S, c) ==
    SumOver([i \in Units |-> n_people[i] * S[<<i, c[1], c[2]>>]], Units)
WomenCount(S, c) ==
    SumOver([i \in Units |-> n_women[i] * S[<<i, c[1], c[2]>>]], Units)
ParentsCount(S, c) ==
    SumOver([i \in Units |-> n_parents[i] * S[<<i, c[1], c[2]>>]], Units)
TasksOnDay(S, i, j) == SumOver([k \in Tasks |-> S[<<i, j, k>>]], Tasks)
\* Assignments of unit i in the g days starting at day j0.
WindowLoad(S, i, j0, g) ==
    SumOver([q \in (j0..(j0 + g - 1)) \X Tasks |-> S[<<i, q[1], q[2]>>]],
            (j0..(j0 + g - 1)) \X Tasks)

\* The seven families as the specification states them.
FamilyHolds(f, S, g) ==
    CASE f = 1 -> \A c \in Cells : Headcount(S, c) = people_per_task[c]
      [] f = 2 -> \A c \in Cells : ParentsCount(S, c) >= parents_per_task[c]
      [] f = 3 -> \A c \in Cells : WomenCount(S, c) >= women_per_task[c]
      [] f = 4 -> \A i \in Units, j \in Days : TasksOnDay(S, i, j) <= 1
      [] f = 5 -> \A t \in force : S[t] = 1
      [] f = 6 -> \A t \in reject : S[t] = 0
      [] f = 7 -> \A i \in Units, j0 \in 0..(n_days - g) :
                     WindowLoad(S, i, j0, g) <= 1

Min(a, b) == IF a <= b THEN a ELSE b

(***************************************************************************)
(* Properties of Instance.solve.                                           *)
(***************************************************************************)

\* C1: when family 1 is not relaxed, every stored solution meets the head
\* count demand of every (day, task) exactly.
C1_HeadcountExact ==
    (1 \notin relax) =>
        \A S \in Stored, c \in Cells : Headcount(S, c) = people_per_task[c]

\* A stored solution that assigns a unit, found with family 1 in force.
C1_Witness ==
    /\ Returned
    /\ 1 \notin relax
    /\ \E S \in Stored, t \in Triples : S[t] = 1

C3_OneTaskPerDay ==
    (4 \notin relax) =>
        \A S \in Stored, i \in Units, j \in Days : TasksOnDay(S, i, j) <= 1

\* A stored solution of a two-task instance that assigns a unit, found with
\* family 4 in force.
C3_Witness ==
    /\ Returned
    /\ 4 \notin relax
    /\ n_tasks >= 2
    /\ \E S \in Stored, i \in Units, j \in Days : TasksOnDay(S, i, j) = 1

\* C4: when families 5 and 6 are not relaxed, every stored solution has a 1
\* at every force triple and a 0 at every reject triple.
C4_ForceRejectHonoured ==
    (5 \notin relax /\ 6 \notin relax) =>
        \A S \in Stored :
            /\ \A t \in force : S[t] = 1
            /\ \A t \in reject : S[t] = 0

\* A stored solution of an instance that has a force and a reject triple.
C4_Witness ==
    /\ Returned
    /\ 5 \notin relax /\ 6 \notin relax
    /\ force # {} /\ reject # {}
    /\ Stored # {}

\* C5: when family 7 is not relaxed, every unit has at most one assignment in
\* every window of min_gap consecutive days, the window ending on the last
\* day included (window starts 0..D-g).
C5_SpacingAllWindows ==
    (7 \notin relax) =>
        \A S \in Stored, i \in Units, j0 \in 0..(n_days - min_gap) :
            WindowLoad(S, i, j0, min_gap) <= 1

C7_RelaxationExact ==
    (SearchComplete /\ calls = 1) =>
        Stored = { S \in Tensors :
                   \A f \in ConstraintIds \ relax : FamilyHolds(f, S, min_gap) }

\* C8: the constraints in force during a solve call are only those its own
\* relax argument selects; in particular, when the instance is infeasible
\* with every family and feasible without family 7, solve(relax=[7]) finds a
\* solution whatever was solved before on the same Instance.
C8_RetryHonoursRelax ==
    /\ SearchComplete =>
          Stored = FeasibleSet(AddedConstraints(relax, min_gap))
    /\ ( /\ Returned
         /\ ~time_cap_fired
         /\ relax = {7}
         /\ FeasibleSet(AddedConstraints({}, min_gap)) = {}
         /\ FeasibleSet(AddedConstraints({7}, min_gap)) # {} )
       => n_solutions >= 1

\* C9: after solve returns, the number of stored solutions does not exceed
\* max_sols.
C9_CapRespected ==
    Returned => n_solutions <= max_sols /\ Len(solution_list) <= max_sols

\* C10: when the time cap does not fire, solve stores min(max_sols, N)
\* pairwise distinct solutions, N being the number of satisfying assignments
\* of the model.
C10_EnumerationUnderCap ==
    (Returned /\ ~time_cap_fired) =>
        /\ Len(solution_list)
             = Min(max_sols, Cardinality(FeasibleSet(model)))
        /\ \A m, n \in 1..Len(solution_list) :
              m # n => solution_list[m] # solution_list[n]

(***************************************************************************)
(* Properties of Instance.check_consistency.                                *)
(***************************************************************************)

\* C11: solve raises ConsistencyError exactly when some (day, task) cell asks
\* for more women, or for more parents, than people; and when it raises, no
\* constraint has been added to the model and no search has been started.
C11_ConsistencyErrorIff ==
    (calls >= 1) =>
        /\ (raised.type = "ConsistencyError")
             <=> (\E c \in Cells : \/ women_per_task[c] > people_per_task[c]
                                   \/ parents_per_task[c] > people_per_task[c])
        /\ (raised.type = "ConsistencyError") =>
              /\ model = {}
              /\ pc = "idle"
              /\ remaining = {}
              /\ solution_count = 0
              /\ status = "unset"
              /\ n_solutions = -1

\* solve raised on an instance whose only fault is a parents quota above the
\* head count of its cell.
C11_Witness ==
    /\ calls >= 1
    /\ raised.type = "ConsistencyError"
    /\ raised.what = "parents_per_task"
    /\ \A c \in Cells : women_per_task[c] <= people_per_task[c]

\* C12: the ConsistencyError lists every offending cell: every cell whose
\* women quota exceeds its head count and every cell whose parents quota
\* exceeds its head count, also when both kinds are present at once.
C12_AllOffendingCellsListed ==
    (raised.type = "ConsistencyError") =>
        \A c \in Cells :
            (\/ women_per_task[c] > people_per_task[c]
             \/ parents_per_task[c] > people_per_task[c])
            => c \in raised.cells

(***************************************************************************)
(* Properties of the property setters.                                     *)
(***************************************************************************)
MatrixAttrs == { "people_per_task", "parents_per_task", "women_per_task" }
VectorAttrs == { "n_people", "n_parents", "n_women" }
ListAttrs == { "reject", "force" }

\* The value an attribute holds.
AttrValue(a) ==
    CASE a = "people_per_task" -> people_per_task
      [] a = "parents_per_task" -> parents_per_task
      [] a = "women_per_task" -> women_per_task
      [] a = "n_people" -> n_people
      [] a = "n_parents" -> n_parents
      [] a = "n_women" -> n_women
      [] a = "reject" -> reject
      [] a = "force" -> force

\* The assigned value has a shape the attribute a does not accept.
WrongShape(a, shape) ==
    CASE a \in MatrixAttrs -> shape # <<n_days, n_tasks>>
      [] a \in VectorAttrs -> shape # <<n_p_units>>
      [] a \in ListAttrs -> \E l \in shape : l # 3

\* C13: assigning a matrix whose shape is not (n_days, n_tasks), a per-unit
\* vector whose shape is not (n_p_units,), or a force/reject list that holds
\* a tuple whose length is not 3 raises ShapeError, and the attribute keeps
\* the value it had before the assignment.
C13_ShapeErrorKeepsValue ==
    [][\A a \in MatrixAttrs \cup VectorAttrs \cup ListAttrs :
          (assigned'.attr = a /\ WrongShape(a, assigned'.shape)) =>
              /\ raised' = ShapeError(a)
              /\ AttrValue(a)' = AttrValue(a)]_vars

\* A list with a pair was assigned to force, which held a triple before.
C13_Witness ==
    /\ assigned.attr = "force"
    /\ 2 \in assigned.shape
    /\ raised = ShapeError("force")
    /\ force # {}

(***************************************************************************)
(* Properties of make_group.                                               *)
(***************************************************************************)
\* The last make_group call returned a ProblemInfo.
GroupReturned == groupings >= 1 /\ raised = NoError

\* The positions of the units of info whose keys are not in keys.
KeptPositions(info, keys) ==
    { p \in 1..info.n_p_units : info.ids[p] \notin Range(keys) }
\* The q-th of them, in the order of the roster.
KeptPosition(info, keys, q) ==
    CHOOSE p \in KeptPositions(info, keys) :
        Cardinality({ r \in KeptPositions(info, keys) : r < p }) = q - 1
\* The position of the unit of info that has the key k.
PositionOf(info, k) == CHOOSE p \in 1..info.n_p_units : info.ids[p] = k

RECURSIVE SeqSum(_)
SeqSum(s) == IF s = << >> THEN 0 ELSE Head(s) + SeqSum(Tail(s))
RECURSIVE JoinedNames(_)
\* ', '.join(names)
JoinedNames(ns) ==
    IF ns = << >> THEN << >>
    ELSE IF Len(ns) = 1 THEN ns[1]
    ELSE ns[1] \o <<", ">> \o JoinedNames(Tail(ns))

\* C14: make_group(keys, info) returns the units of info whose keys are not
\* in keys, in their order and with their name, identifier, head count,
\* women and parents counts unchanged, followed by exactly one composite
\* unit, at the last index, whose counts are the sums over the units of
\* keys, whose name is their names joined with ', ' in the order of keys
\* and whose identifier is the list of their keys.
C14_GroupRoster ==
    GroupReturned =>
        LET old == prb_info
            new == new_prb_info
            keys == list_of_ids
            m == Cardinality(KeptPositions(old, keys))
            fused == [x \in 1..Len(keys) |-> PositionOf(old, keys[x])]
        IN  /\ new.n_p_units = m + 1
            /\ Len(new.ids) = m + 1 /\ Len(new.names) = m + 1
            /\ Len(new.n_people) = m + 1 /\ Len(new.n_women) = m + 1
            /\ Len(new.n_parents) = m + 1
            /\ \A q \in 1..m :
                  LET p == KeptPosition(old, keys, q) IN
                  /\ new.ids[q] = old.ids[p]
                  /\ new.names[q] = old.names[p]
                  /\ new.n_people[q] = old.n_people[p]
                  /\ new.n_women[q] = old.n_women[p]
                  /\ new.n_parents[q] = old.n_parents[p]
            /\ new.n_people[m + 1]
                 = SeqSum([x \in 1..Len(keys) |-> old.n_people[fused[x]]])
            /\ new.n_women[m + 1]
                 = SeqSum([x \in 1..Len(keys) |-> old.n_women[fused[x]]])
            /\ new.n_parents[m + 1]
                 = SeqSum([x \in 1..Len(keys) |-> old.n_parents[fused[x]]])
            /\ new.names[m + 1]
                 = JoinedNames([x \in 1..Len(keys) |-> old.names[fused[x]]])
            /\ new.ids[m + 1] = <<"[">> \o Concat(keys) \o <<"]">>

\* The third and the first of three people were grouped, in that order, and
\* the group has a woman.
C14_Witness ==
    /\ GroupReturned
    /\ groupings = 1
    /\ list_of_ids = << <<"c">>, <<"a">> >>
    /\ new_prb_info.n_p_units = 2
    /\ new_prb_info.ids[1] = <<"b">>
    /\ new_prb_info.names[2] = <<"Caio", ", ", "Ana">>
    /\ new_prb_info.n_women[2] >= 1

\* The unit index that stands, after the call, for the unit of index i of
\* info: the composite's if that unit was fused, otherwise the index at
\* which the new roster has the same identifier.
TargetIndex(old, new, keys, i) ==
    IF old.ids[i + 1] \in Range(keys) THEN new.n_p_units - 1
    ELSE (CHOOSE q \in 1..new.n_p_units : new.ids[q] = old.ids[i + 1]) - 1
Target(old, new, keys, t) == <<TargetIndex(old, new, keys, t[1]), t[2], t[3]>>

\* C15: every force or reject triple (i, j, k) of the input is (i', j, k) in
\* the same list of the output -- a force triple may instead have been
\* dropped because the output's reject holds it -- where i' is the
\* composite if unit i was fused and the new index of the same unit if not;
\* and the output has no triple that is not one of these.
C15_TriplesKeepTarget ==
    GroupReturned =>
        LET old == prb_info
            new == new_prb_info
            keys == list_of_ids
        IN  /\ \A t \in Range(old.reject) :
                  Target(old, new, keys, t) \in Range(new.reject)
            /\ \A t \in Range(old.force) :
                  \/ Target(old, new, keys, t) \in Range(new.force)
                  \/ Target(old, new, keys, t) \in Range(new.reject)
            /\ \A u \in Range(new.reject) :
                  \E t \in Range(old.reject) : Target(old, new, keys, t) = u
            /\ \A u \in Range(new.force) :
                  \E t \in Range(old.force) : Target(old, new, keys, t) = u

\* The first two of three people were grouped; the third, who moves from
\* index 2 to index 0, had a force triple and a fused person a reject triple.
C15_Witness ==
    /\ GroupReturned
    /\ groupings = 1
    /\ list_of_ids = << <<"a">>, <<"b">> >>
    /\ prb_info.force = << <<2, 1, 0>> >>
    /\ prb_info.reject = << <<1, 0, 0>> >>
    /\ new_prb_info.force = << <<0, 1, 0>> >>
    /\ new_prb_info.reject = << <<1, 0, 0>> >>

\* The list l holds no element twice.
NoDuplicates(l) == \A p, q \in 1..Len(l) : p # q => l[p] # l[q]

\* C16: after make_group, force and reject each hold no triple twice and
\* have no triple in common; a triple that the rewriting puts in both stays
\* in reject and leaves force; no reject triple is dropped.
C16_ForceRejectDisjoint ==
    GroupReturned =>
        LET old == prb_info
            new == new_prb_info
            keys == list_of_ids
        IN  /\ NoDuplicates(new.force)
            /\ NoDuplicates(new.reject)
            /\ Range(new.force) \cap Range(new.reject) = {}
            /\ \A t \in Range(old.reject) :
                  Target(old, new, keys, t) \in Range(new.reject)
            /\ \A t \in Range(old.force) :
                  LET u == Target(old, new, keys, t) IN
                  IF \E r \in Range(old.reject) :
                         Target(old, new, keys, r) = u
                  THEN u \notin Range(new.force)
                  ELSE u \in Range(new.force)

\* Two people were grouped, one forced on and the other rejected from the
\* same day and task: the group is rejected there and not forced.
C16_Witness ==
    /\ GroupReturned
    /\ groupings = 1
    /\ list_of_ids = << <<"a">>, <<"b">> >>
    /\ prb_info.force = << <<0, 0, 0>> >>
    /\ prb_info.reject = << <<1, 0, 0>> >>
    /\ new_prb_info.force = << >>
    /\ new_prb_info.reject = << <<new_prb_info.n_p_units - 1, 0, 0>> >>

\* C19: make_group fails with an error and returns no ProblemInfo whenever
\* some key is not the identifier of a unit of the roster, a key given twice
\* included, wherever in the list the bad key stands.
C19_BadKeyFails ==
    (groupings >= 1) =>
        LET keys == list_of_ids IN
        ( \/ \E x \in 1..Len(keys) : keys[x] \notin Range(prb_info.ids)
          \/ \E x, y \in 1..Len(keys) : x # y /\ keys[x] = keys[y] )
        => (raised = ValueError /\ new_prb_info = NoInfo)

\* make_group failed on a list whose last key repeats its first.
C19_Witness ==
    /\ groupings = 1
    /\ list_of_ids = << <<"a">>, <<"b">>, <<"a">> >>
    /\ prb_info.n_p_units = 3
    /\ raised = ValueError

\* make_group has returned twice, the second time for the one key that
\* identifies the composite the first call made.
Regrouped ==
    /\ GroupReturned
    /\ groupings = 2
    /\ list_of_ids = << prb_info.ids[prb_info.n_p_units] >>

\* The fields of two ProblemInfo other than ids agree, force and reject
\* being compared as sets.
SameButIds(A, B) ==
    /\ A.n_p_units = B.n_p_units
    /\ A.n_days = B.n_days /\ A.n_tasks = B.n_tasks
    /\ A.tasks = B.tasks /\ A.days = B.days
    /\ A.names = B.names
    /\ A.people_per_task = B.people_per_task
    /\ A.women_per_task = B.women_per_task
    /\ A.parents_per_task = B.parents_per_task
    /\ A.n_people = B.n_people
    /\ A.n_women = B.n_women
    /\ A.n_parents = B.n_parents
    /\ Range(A.force) = Range(B.force)
    /\ Range(A.reject) = Range(B.reject)

\* C18 as stated: grouping G and then grouping the single key of the
\* composite returns a ProblemInfo equal to the one the first call returned
\* in every field, ids included.
C18_RegroupIsNoOp ==
    Regrouped =>
        /\ SameButIds(new_prb_info, prb_info)
        /\ new_prb_info.ids = prb_info.ids

\* C18 as amended: the second call returns a ProblemInfo equal to the first
\* call's in every field but ids; in ids the other units keep their
\* identifiers and the composite's is the one-element list that holds the
\* identifier it had.
C18_RegroupKeepsAllButId ==
    Regrouped =>
        LET n == prb_info.n_p_units IN
        /\ SameButIds(new_prb_info, prb_info)
        /\ Len(new_prb_info.ids) = n
        /\ \A q \in 1..(n - 1) : new_prb_info.ids[q] = prb_info.ids[q]
        /\ new_prb_info.ids[n] = <<"[">> \o prb_info.ids[n] \o <<"]">>

\* The composite of the first two of three people, which has a force
\* triple, was grouped again by its own key.
C18_Witness ==
    /\ Regrouped
    /\ prb_info.ids = << <<"c">>, <<"[", "a", "b", "]">> >>
    /\ prb_info.force = << <<1, 0, 0>> >>
    /\ new_prb_info.force = << <<1, 0, 0>> >>

(***************************************************************************)
(* Properties of get_problem_info.                                         *)
(***************************************************************************)
\* get_problem_info has returned a ProblemInfo.
InfoReturned == sheets # NoSheets /\ prb_info.n_p_units > 0

\* C17: the ProblemInfo get_problem_info returns has no triple in both force
\* and reject and no triple twice in either list, whatever the sheets hold:
\* also for a person who refuses a task and is pre-allocated to it, and for
\* a person marked indisp and pre-allocated on the same day.
C17_NormalizerDisjoint ==
    InfoReturned =>
        /\ Range(prb_info.force) \cap Range(prb_info.reject) = {}
        /\ NoDuplicates(prb_info.force)
        /\ NoDuplicates(prb_info.reject)

\* The index of the unit of the person with key id_, of a day label and of
\* a task name.
UnitOf(id_) ==
    (CHOOSE p \in 1..Len(sheets.people) : sheets.people[p].id = id_) - 1
DayOf(day) == IndexOf(sheets.days, day) - 1
TaskOf(task) == IndexOf(sheets.tasks, task) - 1

\* C20: as sets, reject is (i(p), j, k(t)) for every day j whenever person p
\* answers Refuse for task t, and (i(p), j(day), k) for every task k
\* whenever the availability cell of p on day is 'indisp'; force is
\* (i(p), j(day), k(v)) whenever the availability cell of p on day is the
\* task name v; any other cell value adds nothing.
C20_TriplesDerivedExactly ==
    InfoReturned =>
        /\ Range(prb_info.reject) =
             { <<x[1] - 1, x[3], TaskOf(x[2])>> :
                 x \in { y \in (1..Len(sheets.people)) \X Range(sheets.tasks)
                                \X (0..(Len(sheets.days) - 1)) :
                         sheets.people[y[1]].task_answ[y[2]] = AnswRefuse } }
             \cup
             { <<UnitOf(x[1][1]), DayOf(x[1][2]), x[2]>> :
                 x \in { e \in Range(sheets.sheet_info) : e[3] = "indisp" }
                       \X (0..(Len(sheets.tasks) - 1)) }
        /\ Range(prb_info.force) =
             { <<UnitOf(e[1]), DayOf(e[2]), TaskOf(e[3])>> :
                 e \in { x \in Range(sheets.sheet_info) :
                         x[3] \in Range(sheets.tasks) } }

\* get_problem_info has been called: it returned or it raised.
InfoCalled == InfoReturned \/ raised = ConsistencyBetweenFilesError

\* C21: get_problem_info accepts the sheets exactly when the task names of
\* the roster and of the demand sheet are equal as sets: the same names in
\* another order are accepted, any difference in membership fails.
C21_TaskSetsDecide ==
    InfoCalled =>
        (InfoReturned <=> Range(sheets.tasks) = Range(sheets.tasks_check))

\* C22: every person becomes one unit, at the index of the person's
\* position in the roster, with head count 1, women count 1 exactly for
\* gender 'F' and parents count 1 exactly for an experience level of at
\* least exp_threshold; ids, names and the three counts are parallel.
C22_UnitsFromPeople ==
    InfoReturned =>
        LET n == Len(sheets.people) IN
        /\ prb_info.n_p_units = n
        /\ Len(prb_info.ids) = n /\ Len(prb_info.names) = n
        /\ Len(prb_info.n_people) = n /\ Len(prb_info.n_women) = n
        /\ Len(prb_info.n_parents) = n
        /\ \A p \in 1..n :
              /\ prb_info.ids[p] = sheets.people[p].id
              /\ prb_info.names[p] = sheets.people[p].name
              /\ prb_info.n_people[p] = 1
              /\ prb_info.n_women[p]
                   = (IF sheets.people[p].gender = "F" THEN 1 ELSE 0)
              /\ prb_info.n_parents[p]
                   = (IF sheets.people[p].exp_level >= 3 THEN 1 ELSE 0)

\* Three people were read; the second is a woman below the threshold and
\* the third a man at the threshold.
C22_Witness ==
    /\ InfoReturned
    /\ prb_info.n_p_units = 3
    /\ sheets.people[2].gender = "F" /\ sheets.people[2].exp_level = 2
    /\ sheets.people[3].gender = "M" /\ sheets.people[3].exp_level = 3
    /\ prb_info.n_women = <<0, 1, 0>>
    /\ prb_info.n_parents = <<0, 0, 1>>

\* C23: the day list holds every distinct day label once, in first-seen
\* order, so n_days is the number of distinct labels and every availability
\* triple's day index is that of the label's only entry, also when two day
\* columns carry the same label.
C23_DaysDeduplicated ==
    InfoReturned =>
        /\ NoDuplicates(prb_info.days)
        /\ prb_info.n_days = Cardinality(Range(prb_info.days))
        /\ \A t \in Range(prb_info.force) \cup Range(prb_info.reject) :
              t[2] \in 0..(Cardinality(Range(prb_info.days)) - 1)

ArrayReturned == sol_array # << >>
\* The names of the units that solution assigns to the task k on the day j,
\* in increasing order of unit index.
AssignedNames(j, k) ==
    LET chosen == SelectSeq([p \in 1..solution.shape[1] |-> p],
                            LAMBDA p : solution.value[<<p - 1, j, k>>] = 1)
    IN  [q \in 1..Len(chosen) |-> prb_info.names[chosen[q]]]

\* C24: in the array sol_to_array returns, the cell of the task k and the
\* day j holds the names of exactly the units i with solution[i, j, k] = 1,
\* joined with ', ' in increasing order of i (the empty string when there is
\* none), and days_worked[i] is the sum of solution[i, j, k] over all days
\* and tasks.
C24_ArrayCells ==
    ArrayReturned =>
        /\ \A k \in 0..(solution.shape[3] - 1),
              j \in 0..(solution.shape[2] - 1) :
              sol_array[k + 2][j + 2] = JoinedNames(AssignedNames(j, k))
        /\ \A i \in 0..(solution.shape[1] - 1) :
              days_worked[i + 1] =
                  SumOver([c \in (0..(solution.shape[2] - 1))
                                   \X (0..(solution.shape[3] - 1)) |->
                              solution.value[<<i, c[1], c[2]>>]],
                          (0..(solution.shape[2] - 1))
                              \X (0..(solution.shape[3] - 1)))
\* A person and a group share a cell, another cell is empty, and the
\* person works twice.
C24_Witness ==
    /\ ArrayReturned
    /\ sol_array[2][2] = <<"Ana", ", ", "Bia", ", ", "Caio">>
    /\ sol_array[2][3] = << >>
    /\ days_worked[1] = 2

\* An identifier that is a Python list of identifiers: the unit is a group.
IsComposite(id_) == id_[1] = "["
\* Every unit of info is a person of head count 1 or a group of head count
\* at least 2, and its women and parents counts are within its head count.
WellFormed(info) ==
    \A p \in 1..info.n_p_units :
        /\ IF IsComposite(info.ids[p])
           THEN info.n_people[p] >= 2
           ELSE info.n_people[p] = 1
        /\ 0 <= info.n_women[p] /\ info.n_women[p] <= info.n_people[p]
        /\ 0 <= info.n_parents[p] /\ info.n_parents[p] <= info.n_people[p]

\* C25: make_group keeps the units well formed: when every unit of the
\* ProblemInfo passed in is a person of head count 1 or a group of head
\* count at least 2, with women and parents counts between 0 and the head
\* count, so is every unit of the ProblemInfo returned.
C25_UnitsWellFormed ==
    (GroupReturned /\ WellFormed(prb_info)) => WellFormed(new_prb_info)

\* C26: the ProblemInfo a successful make_group returns, in a sequence of
\* calls, is structurally consistent: ids, names, n_people, n_women and
\* n_parents all have n_p_units entries, n_p_units is that of the
\* ProblemInfo passed in minus the number of keys plus 1, and every force
\* and reject triple has its unit index in 0..n_p_units-1 and the day and
\* task indices, in range, of a triple of the ProblemInfo passed in.
C26_GroupKeepsStructure ==
    GroupReturned =>
        /\ Len(new_prb_info.ids) = new_prb_info.n_p_units
        /\ Len(new_prb_info.names) = new_prb_info.n_p_units
        /\ Len(new_prb_info.n_people) = new_prb_info.n_p_units
        /\ Len(new_prb_info.n_women) = new_prb_info.n_p_units
        /\ Len(new_prb_info.n_parents) = new_prb_info.n_p_units
        /\ new_prb_info.n_p_units =
               prb_info.n_p_units - Len(list_of_ids) + 1
        /\ \A t \in Range(new_prb_info.force) \cup Range(new_prb_info.reject) :
              /\ t[1] \in 0..(new_prb_info.n_p_units - 1)
              /\ t[2] \in 0..(new_prb_info.n_days - 1)
              /\ t[3] \in 0..(new_prb_info.n_tasks - 1)
              /\ \E u \in Range(prb_info.force) \cup Range(prb_info.reject) :
                    u[2] = t[2] /\ u[3] = t[3]
\* Two calls in sequence, each fusing two units, leave one unit that holds
\* a triple.
C26_Witness ==
    /\ GroupReturned
    /\ groupings = 2
    /\ Len(list_of_ids) = 2
    /\ new_prb_info.n_p_units = 1
    /\ new_prb_info.force = << <<0, 1, 0>> >>

\* C27: make_group has no effect on the ProblemInfo passed in: after the
\* call, whether it returned or raised, the holder of that ProblemInfo
\* finds every field of it as it was before the call.
C27_InputUntouched ==
    [][groupings' > groupings =>
          prb_info' = IF groupings = 0 THEN prb_info ELSE new_prb_info]_vars
\* A call that raised at its second key, after the first key had been
\* popped from the local lists.
C27_Witness ==
    /\ groupings = 1
    /\ raised = ValueError
    /\ list_of_ids = << <<"a">>, UnknownId >>
    /\ prb_info.ids = << <<"a">>, <<"b">>, <<"c">> >>
    /\ prb_info.names = RosterNames

\* The satisfying assignments the callback was called with in the last
\* search.
Emitted == FeasibleSet(model) \ remaining

\* C28: whenever solve has returned, after one call or several on the same
\* Instance, solution_list holds exactly the solutions the callback stored
\* during that call, one entry per callback and none from an earlier call,
\* n_solutions is the length of solution_list, and every entry is a
\* complete U x D x T tensor of 0/1 values.
C28_ListOfThisCall ==
    Returned =>
        /\ Len(solution_list) = solution_count
        /\ n_solutions = Len(solution_list)
        /\ Stored = { BuildSolution(x) : x \in Emitted }
        /\ Cardinality(Stored) = Len(solution_list)
        /\ Stored \subseteq Tensors
\* A second call on the same Instance has returned with two solutions.
C28_Witness ==
    /\ Returned
    /\ calls = 2
    /\ Len(solution_list) = 2
    /\ n_solutions = 2
====
